---- MODULE Spec2Model ----
(***************************************************************************)
(* Model of the RandomMp3PlayerMobile component                            *)
(* (src/src/components/RandomMp3PlayerMobile.tsx): the track pool, the     *)
(* track/silence playback sequencer, the audio element it drives, the      *)
(* play() promises still awaiting settlement, the object URLs minted and   *)
(* revoked, and the media-session handlers with the render they captured.  *)
(***************************************************************************)
EXTENDS Bags, FiniteSets, Integers, Sequences, TLC

\* ---- bounds of the model ------------------------------------------------
MaxFiles == 2          \* file object URLs minted over a run
MaxSilence == 2        \* silence object URLs minted over a run
MaxList == 2           \* files handed to one onFiles call
RandDen == 2           \* Math.random() is k / RandDen, k in 0 .. RandDen-1

\* ---- program constants --------------------------------------------------
GapLimitSec == 3600
DefaultMinGapSec == 3
DefaultMaxGapSec == 10
MsPerSec == 1000
SampleRate == 44100
NumChannels == 1
BitsPerSample == 16
BitsPerByte == 8
WavHeaderBytes == 44
RiffRestBytes == 36

\* ---- input domains ------------------------------------------------------
Names == {"a.mp3", "b.mp3"}
MinGapInputs == {-1, 3601}            \* numbers typed into the minimum-gap input
MaxGapInputs == {-1}               \* numbers typed into the maximum-gap input
MaxWavMs == 99                     \* durations 0 .. MaxWavMs ms handed to makeSilenceWavUrl
\* durations, in milliseconds, handed to makeSilenceWavUrl
WavInputs == (0 .. MaxWavMs) \cup {-1000, -1, 5000, 1234567, 3599999, 3600000, 3600001, 4000000}
MediaTimes == {1}                  \* audio.currentTime / audio.duration readings

Null == [kind |-> "null", id |-> 0]
FileUrl(k) == [kind |-> "file", id |-> k]
SilenceUrl(k) == [kind |-> "silence", id |-> k]
SilenceTitle == "Silence"
NoBlob == [size |-> 0, riffSize |-> 0, dataSize |-> 0, frameCount |-> 0,
           sampleBytes |-> {}]

VARIABLES
    tracks,             \* useState<Track[]>: sequence of [name, url]
    running,            \* useState(false)
    minGapSec,          \* useState(3)
    maxGapSec,          \* useState(10)
    currentIsSilence,   \* currentIsSilenceRef
    pendingRevoke,      \* pendingRevokeRef
    currentMusicUrl,    \* currentMusicUrlRef
    lastPlayedUrl,      \* lastPlayedUrlRef
    silenceRemainingMs, \* useState(0)
    silenceDurMs,       \* silenceDurRef
    silenceElapsedMs,   \* performance.now() - silenceStartRef
    rafRef,             \* scheduled tick and the `running` its closure captured
    currentTime,        \* useState(0)
    duration,           \* useState(0)
    audioSrc,           \* audio.src
    audioState,         \* "paused" | "starting" | "playing" | "ended"
    pending,            \* play() promises awaiting the platform
    aborted,            \* play() promises rejected by pause()/load, catch not yet run
    nextFile,           \* next file object URL id
    nextSilence,        \* next silence object URL id
    revokeLog,          \* bag of URLs passed to URL.revokeObjectURL
    msSnap,             \* render captured by the media-session handlers
    mounted,            \* component mounted
    wavArg,             \* seconds (in ms) of the last makeSilenceWavUrl call
    wavBlob,            \* the Blob that call built
    lastEvent           \* the handler that ran last

vars == <<tracks, running, minGapSec, maxGapSec, currentIsSilence, pendingRevoke,
          currentMusicUrl, lastPlayedUrl, silenceRemainingMs,
          silenceDurMs, silenceElapsedMs, rafRef, currentTime, duration,
          audioSrc, audioState, pending, aborted, nextFile, nextSilence,
          revokeLog, msSnap, mounted, wavArg, wavBlob, lastEvent>>

\* ---- pure helpers -------------------------------------------------------
MinOf(a, b) == IF a <= b THEN a ELSE b
MaxOf(a, b) == IF a >= b THEN a ELSE b

clamp(value, min, max) == MinOf(max, MaxOf(min, value))

RafOff == [on |-> FALSE, running |-> FALSE]

Phase ==
    IF ~running THEN "Idle"
    ELSE IF currentIsSilence THEN "PlayingGap" ELSE "PlayingTrack"

\* op: the handler; from: the phase it ran in; sel: it handed a track to
\* playSrc; prev: the track played last before that
Ev(op, sel) ==
    [op |-> op, from |-> Phase, sel |-> sel,
     prev |-> IF sel THEN lastPlayedUrl ELSE Null]

\* URL.revokeObjectURL(u)
Revoke(log, u) == log (+) SetToBag({u})

RECURSIVE RevokeTracks(_, _)
RevokeTracks(log, trk) ==
    IF trk = <<>> THEN log
    ELSE RevokeTracks(Revoke(log, Head(trk).url), Tail(trk))

\* the media-session handlers are re-attached only when `running` changes
Render ==
    msSnap' = IF running' # running
              THEN [tracks |-> tracks', minGapSec |-> minGapSec',
                    maxGapSec |-> maxGapSec', running |-> running']
              ELSE msSnap

InitSequencer ==
    /\ tracks = <<>>
    /\ running = FALSE
    /\ minGapSec = DefaultMinGapSec
    /\ maxGapSec = DefaultMaxGapSec
    /\ currentIsSilence = FALSE
    /\ pendingRevoke = Null
    /\ currentMusicUrl = Null
    /\ lastPlayedUrl = Null
    /\ silenceRemainingMs = 0
    /\ silenceDurMs = 0
    /\ silenceElapsedMs = 0
    /\ rafRef = RafOff
    /\ currentTime = 0
    /\ duration = 0
    /\ audioSrc = Null
    /\ audioState = "paused"
    /\ pending = {}
    /\ aborted = 0
    /\ nextFile = 1
    /\ nextSilence = 1
    /\ revokeLog = EmptyBag
    /\ msSnap = [tracks |-> <<>>, minGapSec |-> DefaultMinGapSec,
                 maxGapSec |-> DefaultMaxGapSec, running |-> FALSE]
    /\ mounted = TRUE
    /\ lastEvent = [op |-> "mount", from |-> "Idle", sel |-> FALSE, prev |-> Null]

Init ==
    /\ InitSequencer
    /\ wavArg = 0
    /\ wavBlob = NoBlob

\* The continuation of a play() promise rejected by pause() or by a load runs
\* before the next event is dispatched
Ready == mounted /\ aborted = 0

\* ---- the audio element --------------------------------------------------
\* audio.pause(): the element is paused and every play() promise still
\* pending is rejected (AbortError)
AudioPause ==
    /\ audioState' = "paused"
    /\ pending' = {}
    /\ aborted' = aborted + Cardinality(pending)

\* variant: playSrc revokes the source it replaces
PlaySrcSync_RevokesReplaced(url, revokeOnEnd, title) ==
    /\ revokeLog' = IF audioSrc # Null THEN Revoke(revokeLog, audioSrc)
                    ELSE revokeLog
    /\ pendingRevoke' = Null
    /\ audioSrc' = url
    /\ audioState' = "starting"
    /\ aborted' = aborted + Cardinality(pending)
    /\ pending' = {[kind |-> "src", url |-> url, revokeOnEnd |-> revokeOnEnd,
                    title |-> title]}

\* ---- playSrc, synchronous part (up to `await audio.play()`) --------------
\* the load started by `audio.src = url` rejects the promises still pending
PlaySrcSync(url, revokeOnEnd, title) ==
    /\ revokeLog' = IF pendingRevoke # Null THEN Revoke(revokeLog, pendingRevoke)
                    ELSE revokeLog
    /\ pendingRevoke' = Null
    /\ audioSrc' = url
    /\ audioState' = "starting"
    /\ aborted' = aborted + Cardinality(pending)
    /\ pending' = {[kind |-> "src", url |-> url, revokeOnEnd |-> revokeOnEnd,
                    title |-> title]}

\* ---- playRandomTrack ----------------------------------------------------
\* trk: the `tracks` of the closure; pauseFirst: the caller called
\* audio.pause() before; st: the audio state otherwise
FilterLast(trk) == SelectSeq(trk, LAMBDA tr : tr.url # lastPlayedUrl)

\* variant: the track played last is not excluded
CandidatePool_NoExclusion(trk) == trk

CandidatePool(trk) ==
    IF lastPlayedUrl # Null /\ Len(trk) > 1 THEN FilterLast(trk) ELSE trk

PlayRandomTrackNone(pauseFirst, st, op) ==
    /\ IF pauseFirst THEN AudioPause
       ELSE /\ audioState' = st
            /\ UNCHANGED <<pending, aborted>>
    /\ lastEvent' = Ev(op, FALSE)
    /\ UNCHANGED <<currentIsSilence, currentMusicUrl, lastPlayedUrl, revokeLog,
                   pendingRevoke, audioSrc>>

PlayRandomTrack(trk, pauseFirst, st, op) ==
    IF Len(trk) = 0 \/ Len(CandidatePool(trk)) = 0
    THEN PlayRandomTrackNone(pauseFirst, st, op)
    ELSE \E idx \in 1 .. Len(CandidatePool(trk)) :
           LET t == CandidatePool(trk)[idx] IN
             /\ currentIsSilence' = FALSE
             /\ currentMusicUrl' = t.url
             /\ lastPlayedUrl' = t.url
             /\ PlaySrcSync(t.url, FALSE, t.name)
             /\ lastEvent' = Ev(op, TRUE)

\* ---- createWavSilence, makeSilenceWavUrl ----------------------------------
\* seconds is in milliseconds: frameCount = max(0, floor(seconds * sampleRate)),
\* with sampleRate / MsPerSec reduced by 100 to stay within TLC's integers;
\* the header fields are written with setUint32 and stay below 2^32
createWavSilence(seconds) ==
    LET frameCount == MaxOf(0, (seconds * (SampleRate \div 100)) \div (MsPerSec \div 100))
        blockAlign == (NumChannels * BitsPerSample) \div BitsPerByte
        dataSize == frameCount * blockAlign
    IN [size |-> WavHeaderBytes + dataSize,
        riffSize |-> RiffRestBytes + dataSize,
        dataSize |-> dataSize,
        frameCount |-> frameCount,
        sampleBytes |-> IF frameCount > 0 THEN {0} ELSE {}]

\* variant: the duration is not clamped
makeSilenceWavUrl_NoClamp(seconds) == createWavSilence(seconds)

\* the Blob behind the URL that makeSilenceWavUrl returns
makeSilenceWavUrl(seconds) ==
    createWavSilence(clamp(seconds, 0, GapLimitSec * MsPerSec))

\* ---- playSilenceThenNext ------------------------------------------------
\* dur = clamp(lo + Math.random() * (hi - lo), 0, 3600), in milliseconds
GapDurMs(mn, mx, k) ==
    LET lo == MinOf(mn, mx)
        hi == MaxOf(mn, mx)
    IN clamp(lo * MsPerSec + (k * (hi - lo) * MsPerSec) \div RandDen,
             0, GapLimitSec * MsPerSec)

\* mn, mx, run: minGapSec, maxGapSec and running of the closure
PlaySilenceThenNext(mn, mx, run, op) ==
    /\ nextSilence <= MaxSilence
    /\ \E k \in 0 .. RandDen - 1 :
         LET dur == GapDurMs(mn, mx, k) IN
           /\ silenceDurMs' = dur
           /\ silenceRemainingMs' = dur
           /\ wavArg' = dur
           /\ wavBlob' = makeSilenceWavUrl(dur)
    /\ nextSilence' = nextSilence + 1
    /\ currentIsSilence' = TRUE
    /\ currentMusicUrl' = Null
    /\ silenceElapsedMs' = 0
    /\ rafRef' = [on |-> TRUE, running |-> run]
    /\ PlaySrcSync(SilenceUrl(nextSilence), TRUE, SilenceTitle)
    /\ lastEvent' = Ev(op, FALSE)

\* ---- tick (requestAnimationFrame callback) ------------------------------
\* the time read by performance.now() when the frame fires
ElapsedChoices == {e \in {silenceDurMs \div 2, silenceDurMs} : e >= silenceElapsedMs}

Tick ==
    /\ Ready
    /\ rafRef.on
    /\ \E e \in ElapsedChoices :
         /\ silenceElapsedMs' = e
         /\ LET remain == MaxOf(0, silenceDurMs - e) IN
              /\ silenceRemainingMs' = remain
              /\ rafRef' = IF remain > 0 /\ currentIsSilence /\ rafRef.running
                           THEN rafRef ELSE RafOff
    /\ lastEvent' = Ev("other", FALSE)
    /\ UNCHANGED <<tracks, running, minGapSec, maxGapSec, currentIsSilence,
                   pendingRevoke, currentMusicUrl, lastPlayedUrl, silenceDurMs, currentTime, duration, audioSrc, audioState,
                   pending, aborted, nextFile, nextSilence, wavArg, wavBlob, revokeLog, mounted>>
    /\ Render

\* ---- settlement of `await audio.play()` ---------------------------------
\* the platform starts playback: the pending promises resolve and playSrc
\* continues after the await
PlayResolve ==
    /\ Ready
    /\ pending # {}
    /\ audioSrc # Null
    /\ pending' = {}
    /\ audioState' = "playing"
    /\ IF \E p \in pending : p.kind = "src"
       THEN LET p == CHOOSE q \in pending : q.kind = "src" IN
              pendingRevoke' = IF p.revokeOnEnd THEN p.url ELSE pendingRevoke
       ELSE UNCHANGED pendingRevoke
    /\ lastEvent' = Ev("other", FALSE)
    /\ UNCHANGED <<tracks, running, minGapSec, maxGapSec, currentIsSilence,
                   currentMusicUrl, lastPlayedUrl, silenceRemainingMs,
                   silenceDurMs, silenceElapsedMs, rafRef, currentTime, duration,
                   audioSrc, aborted, nextFile, nextSilence, wavArg, wavBlob, revokeLog, mounted>>
    /\ Render

\* variant: the catch branch leaves `running` as it is
RejectEffect_KeepsRunning ==
    /\ UNCHANGED running
    /\ lastEvent' = Ev("playReject", FALSE)
    /\ UNCHANGED <<tracks, minGapSec, maxGapSec, currentIsSilence, pendingRevoke,
                   currentMusicUrl, lastPlayedUrl,
                   silenceRemainingMs, silenceDurMs, silenceElapsedMs, rafRef,
                   currentTime, duration, audioSrc, nextFile, nextSilence, wavArg, wavBlob,
                   revokeLog, mounted>>
    /\ Render

\* the catch branch of playSrc (and of the media-session play handler)
RejectEffect ==
    /\ running' = FALSE
    /\ lastEvent' = Ev("playReject", FALSE)
    /\ UNCHANGED <<tracks, minGapSec, maxGapSec, currentIsSilence, pendingRevoke,
                   currentMusicUrl, lastPlayedUrl, silenceRemainingMs, silenceDurMs, silenceElapsedMs, rafRef,
                   currentTime, duration, audioSrc, nextFile, nextSilence, wavArg, wavBlob,
                   revokeLog, mounted>>
    /\ Render

\* the platform declines to start playback (autoplay policy, load failure)
PlayRejectPlatform ==
    /\ Ready
    /\ pending # {}
    /\ pending' = {}
    /\ audioState' = "paused"
    /\ UNCHANGED aborted
    /\ RejectEffect

\* a promise superseded by pause() or by a new source rejects with AbortError
PlayRejectAborted ==
    /\ mounted
    /\ aborted > 0
    /\ aborted' = aborted - 1
    /\ UNCHANGED <<pending, audioState>>
    /\ RejectEffect

\* ---- audio element events ----------------------------------------------
\* variant: nothing is started when a gap ends
OnEnded_NoTrackAfterGap ==
    /\ Ready
    /\ audioState = "playing"
    /\ IF ~running \/ currentIsSilence
       THEN /\ audioState' = "ended"
            /\ lastEvent' = Ev("ended", FALSE)
            /\ UNCHANGED <<currentIsSilence, pendingRevoke, currentMusicUrl,
                           lastPlayedUrl, silenceRemainingMs, silenceDurMs,
                           silenceElapsedMs, rafRef, audioSrc, pending, aborted,
                           nextSilence, wavArg, wavBlob, revokeLog>>
       ELSE /\ PlaySilenceThenNext(minGapSec, maxGapSec, running, "ended")
            /\ UNCHANGED lastPlayedUrl
    /\ UNCHANGED <<tracks, running, minGapSec, maxGapSec, currentTime, duration,
                   nextFile, mounted>>
    /\ Render

\* variant: the handler does not test `running`
OnEnded_IgnoresRunning ==
    /\ Ready
    /\ audioState = "playing"
    /\ IF currentIsSilence
       THEN /\ silenceRemainingMs' = 0
            /\ PlayRandomTrack(tracks, FALSE, "ended", "ended")
            /\ UNCHANGED <<silenceDurMs, silenceElapsedMs, rafRef, nextSilence, wavArg, wavBlob>>
       ELSE /\ PlaySilenceThenNext(minGapSec, maxGapSec, running, "ended")
            /\ UNCHANGED lastPlayedUrl
    /\ UNCHANGED <<tracks, running, minGapSec, maxGapSec,
                   currentTime, duration, nextFile, mounted>>
    /\ Render

OnEnded ==
    /\ Ready
    /\ audioState = "playing"
    /\ IF ~running
       THEN /\ audioState' = "ended"
            /\ lastEvent' = Ev("ended", FALSE)
            /\ UNCHANGED <<currentIsSilence, pendingRevoke, currentMusicUrl,
                           lastPlayedUrl, silenceRemainingMs, silenceDurMs,
                           silenceElapsedMs, rafRef, audioSrc, pending, aborted,
                           nextSilence, wavArg, wavBlob, revokeLog>>
       ELSE IF currentIsSilence
       THEN /\ silenceRemainingMs' = 0
            /\ PlayRandomTrack(tracks, FALSE, "ended", "ended")
            /\ UNCHANGED <<silenceDurMs, silenceElapsedMs, rafRef, nextSilence, wavArg, wavBlob>>
       ELSE /\ PlaySilenceThenNext(minGapSec, maxGapSec, running, "ended")
            /\ UNCHANGED lastPlayedUrl
    /\ UNCHANGED <<tracks, running, minGapSec, maxGapSec, currentTime, duration, nextFile, mounted>>
    /\ Render

OnTimeUpdate ==
    /\ Ready
    /\ audioState = "playing"
    /\ IF ~currentIsSilence
       THEN /\ currentTime' \in MediaTimes
            /\ duration' \in MediaTimes
       ELSE UNCHANGED <<currentTime, duration>>
    /\ lastEvent' = Ev("other", FALSE)
    /\ UNCHANGED <<tracks, running, minGapSec, maxGapSec, currentIsSilence,
                   pendingRevoke, currentMusicUrl, lastPlayedUrl, silenceRemainingMs, silenceDurMs, silenceElapsedMs, rafRef,
                   audioSrc, audioState, pending, aborted, nextFile, nextSilence, wavArg, wavBlob,
                   revokeLog, mounted>>
    /\ Render

\* ---- buttons -----------------------------------------------------------
\* variant: the handler does not test `running`
OnStart_NoRunningGuard ==
    /\ Ready
    /\ IF Len(tracks) = 0
       THEN /\ lastEvent' = Ev("start", FALSE)
            /\ UNCHANGED <<running, currentIsSilence, pendingRevoke,
                           currentMusicUrl, lastPlayedUrl, audioSrc, audioState,
                           pending, aborted, revokeLog>>
       ELSE /\ running' = TRUE
            /\ PlayRandomTrack(tracks, FALSE, audioState, "start")
    /\ UNCHANGED <<tracks, minGapSec, maxGapSec,
                   silenceRemainingMs, silenceDurMs, silenceElapsedMs, rafRef,
                   currentTime, duration, nextFile, nextSilence, wavArg, wavBlob, mounted>>
    /\ Render

OnStart ==
    /\ Ready
    /\ IF running \/ Len(tracks) = 0
       THEN /\ lastEvent' = Ev("start", FALSE)
            /\ UNCHANGED <<running, currentIsSilence, pendingRevoke,
                           currentMusicUrl, lastPlayedUrl, audioSrc, audioState,
                           pending, aborted, revokeLog>>
       ELSE /\ running' = TRUE
            /\ PlayRandomTrack(tracks, FALSE, audioState, "start")
    /\ UNCHANGED <<tracks, minGapSec, maxGapSec, silenceRemainingMs, silenceDurMs, silenceElapsedMs, rafRef,
                   currentTime, duration, nextFile, nextSilence, wavArg, wavBlob, mounted>>
    /\ Render

\* variant: stop also forgets the track played last
OnStop_ResetsLastPlayed ==
    /\ Ready
    /\ running' = FALSE
    /\ AudioPause
    /\ rafRef' = RafOff
    /\ silenceRemainingMs' = 0
    /\ currentTime' = 0
    /\ duration' = 0
    /\ lastPlayedUrl' = Null
    /\ lastEvent' = Ev("stop", FALSE)
    /\ UNCHANGED <<tracks, minGapSec, maxGapSec, currentIsSilence, pendingRevoke,
                   currentMusicUrl, silenceDurMs,
                   silenceElapsedMs, audioSrc, nextFile, nextSilence, wavArg,
                   wavBlob, revokeLog, mounted>>
    /\ Render

\* variant: each call adds to the current-time counter
OnStop_Accumulates ==
    /\ Ready
    /\ running' = FALSE
    /\ AudioPause
    /\ rafRef' = RafOff
    /\ silenceRemainingMs' = 0
    /\ currentTime' = 1 - currentTime
    /\ duration' = 0
    /\ lastEvent' = Ev("stop", FALSE)
    /\ UNCHANGED <<tracks, minGapSec, maxGapSec, currentIsSilence, pendingRevoke,
                   currentMusicUrl, lastPlayedUrl, silenceDurMs,
                   silenceElapsedMs, audioSrc, nextFile, nextSilence, wavArg, wavBlob, revokeLog,
                   mounted>>
    /\ Render

\* variant: the handler neither cancels the tick nor resets the countdown
OnStop_LeavesTick ==
    /\ Ready
    /\ running' = FALSE
    /\ AudioPause
    /\ currentTime' = 0
    /\ duration' = 0
    /\ lastEvent' = Ev("stop", FALSE)
    /\ UNCHANGED <<tracks, minGapSec, maxGapSec, currentIsSilence, pendingRevoke,
                   currentMusicUrl, lastPlayedUrl, silenceDurMs,
                   silenceElapsedMs, audioSrc, nextFile, nextSilence, wavArg, wavBlob, revokeLog,
                   mounted, rafRef, silenceRemainingMs>>
    /\ Render

OnStop ==
    /\ Ready
    /\ running' = FALSE
    /\ AudioPause
    /\ rafRef' = RafOff
    /\ silenceRemainingMs' = 0
    /\ currentTime' = 0
    /\ duration' = 0
    /\ lastEvent' = Ev("stop", FALSE)
    /\ UNCHANGED <<tracks, minGapSec, maxGapSec, currentIsSilence, pendingRevoke,
                   currentMusicUrl, lastPlayedUrl, silenceDurMs,
                   silenceElapsedMs, audioSrc, nextFile, nextSilence, wavArg, wavBlob, revokeLog,
                   mounted>>
    /\ Render

\* variant: skip always starts a gap, also during a gap
SkipTrack_AlwaysGap ==
    /\ Ready
    /\ IF ~running
       THEN /\ lastEvent' = Ev("skip", FALSE)
            /\ UNCHANGED <<currentIsSilence, pendingRevoke, currentMusicUrl,
                           lastPlayedUrl, silenceRemainingMs, silenceDurMs,
                           silenceElapsedMs, rafRef, audioSrc, audioState,
                           pending, aborted, nextSilence, wavArg, wavBlob, revokeLog>>
       ELSE /\ PlaySilenceThenNext(minGapSec, maxGapSec, running, "skip")
            /\ UNCHANGED lastPlayedUrl
    /\ UNCHANGED <<tracks, running, minGapSec, maxGapSec,
                   currentTime, duration, nextFile, mounted>>
    /\ Render

SkipTrack ==
    /\ Ready
    /\ IF ~running
       THEN /\ lastEvent' = Ev("skip", FALSE)
            /\ UNCHANGED <<currentIsSilence, pendingRevoke, currentMusicUrl,
                           lastPlayedUrl, silenceRemainingMs, silenceDurMs,
                           silenceElapsedMs, rafRef, audioSrc, audioState,
                           pending, aborted, nextSilence, wavArg, wavBlob, revokeLog>>
       ELSE IF currentIsSilence
       THEN /\ PlayRandomTrack(tracks, TRUE, "paused", "skip")
            /\ UNCHANGED <<silenceRemainingMs, silenceDurMs, silenceElapsedMs,
                           rafRef, nextSilence, wavArg, wavBlob>>
       ELSE /\ PlaySilenceThenNext(minGapSec, maxGapSec, running, "skip")
            /\ UNCHANGED lastPlayedUrl
    /\ UNCHANGED <<tracks, running, minGapSec, maxGapSec, currentTime, duration, nextFile, mounted>>
    /\ Render

\* ---- track pool ---------------------------------------------------------
FileLists == UNION {[1 .. n -> Names] : n \in 0 .. MaxList}

IsDuplicate(trk, name) == \E i \in 1 .. Len(trk) : trk[i].name = name

\* variant: the accepted files are collected in reverse order
RECURSIVE NewTracks_Reversed(_, _, _)
NewTracks_Reversed(trk, list, k) ==
    IF list = <<>> THEN <<>>
    ELSE IF IsDuplicate(trk, Head(list))
         THEN NewTracks_Reversed(trk, Tail(list), k)
         ELSE NewTracks_Reversed(trk, Tail(list), k + 1)
              \o <<[name |-> Head(list), url |-> FileUrl(k)]>>

\* the loop of onFiles: every name is compared with the `tracks` of the
\* closure; k is the id of the next object URL
RECURSIVE NewTracks(_, _, _)
NewTracks(trk, list, k) ==
    IF list = <<>> THEN <<>>
    ELSE IF IsDuplicate(trk, Head(list))
         THEN NewTracks(trk, Tail(list), k)
         ELSE <<[name |-> Head(list), url |-> FileUrl(k)]>>
              \o NewTracks(trk, Tail(list), k + 1)

OnFiles ==
    /\ Ready
    /\ \E files \in FileLists :
         LET newTracks == IF Len(files) = 0 THEN <<>>
                          ELSE NewTracks(tracks, files, nextFile)
         IN /\ nextFile + Len(newTracks) - 1 <= MaxFiles
            /\ tracks' = tracks \o newTracks
            /\ nextFile' = nextFile + Len(newTracks)
    /\ lastEvent' = Ev("register", FALSE)
    /\ UNCHANGED <<running, minGapSec, maxGapSec, currentIsSilence, pendingRevoke,
                   currentMusicUrl, lastPlayedUrl, silenceRemainingMs, silenceDurMs, silenceElapsedMs, rafRef,
                   currentTime, duration, audioSrc, audioState, pending, aborted,
                   nextSilence, wavArg, wavBlob, revokeLog, mounted>>
    /\ Render

\* the clear button is rendered only while the pool is non-empty
ClearFiles ==
    /\ Ready
    /\ Len(tracks) > 0
    /\ revokeLog' = RevokeTracks(revokeLog, tracks)
    /\ tracks' = <<>>
    /\ lastPlayedUrl' = Null
    /\ running' = FALSE
    /\ AudioPause
    /\ rafRef' = RafOff
    /\ silenceRemainingMs' = 0
    /\ lastEvent' = Ev("clear", FALSE)
    /\ UNCHANGED <<minGapSec, maxGapSec, currentIsSilence, pendingRevoke,
                   currentMusicUrl, silenceDurMs, silenceElapsedMs,
                   currentTime, duration, audioSrc, nextFile, nextSilence, wavArg, wavBlob,
                   mounted>>
    /\ Render

\* ---- gap configuration inputs -------------------------------------------
SetMinGapSec ==
    /\ Ready
    /\ \E v \in MinGapInputs : minGapSec' = clamp(v, 0, GapLimitSec)
    /\ lastEvent' = Ev("other", FALSE)
    /\ UNCHANGED <<tracks, running, maxGapSec, currentIsSilence, pendingRevoke,
                   currentMusicUrl, lastPlayedUrl, silenceRemainingMs, silenceDurMs, silenceElapsedMs, rafRef,
                   currentTime, duration, audioSrc, audioState, pending, aborted,
                   nextFile, nextSilence, wavArg, wavBlob, revokeLog, mounted>>
    /\ Render

SetMaxGapSec ==
    /\ Ready
    /\ \E v \in MaxGapInputs : maxGapSec' = clamp(v, 0, GapLimitSec)
    /\ lastEvent' = Ev("other", FALSE)
    /\ UNCHANGED <<tracks, running, minGapSec, currentIsSilence, pendingRevoke,
                   currentMusicUrl, lastPlayedUrl, silenceRemainingMs, silenceDurMs, silenceElapsedMs, rafRef,
                   currentTime, duration, audioSrc, audioState, pending, aborted,
                   nextFile, nextSilence, wavArg, wavBlob, revokeLog, mounted>>
    /\ Render

\* ---- media-session action handlers (closures of the render in msSnap) ---
\* the platform offers its media controls once the page has given the audio
\* element a source
MediaSessionActive == audioSrc # Null

\* audio.play() on an element that is already playing resolves at once
MediaPlay ==
    /\ Ready
    /\ MediaSessionActive
    /\ running' = (IF ~msSnap.running THEN TRUE ELSE running)
    /\ IF audioState = "playing"
       THEN UNCHANGED <<audioState, pending>>
       ELSE /\ pending' = pending \cup
                  {[kind |-> "media", url |-> audioSrc,
                    revokeOnEnd |-> FALSE, title |-> ""]}
            /\ audioState' = "starting"
    /\ UNCHANGED aborted
    /\ lastEvent' = Ev("play", FALSE)
    /\ UNCHANGED <<tracks, minGapSec, maxGapSec, currentIsSilence, pendingRevoke,
                   currentMusicUrl, lastPlayedUrl, silenceRemainingMs, silenceDurMs, silenceElapsedMs, rafRef,
                   currentTime, duration, audioSrc, nextFile, nextSilence, wavArg, wavBlob,
                   revokeLog, mounted>>
    /\ Render

MediaPause ==
    /\ Ready
    /\ MediaSessionActive
    /\ AudioPause
    /\ running' = FALSE
    /\ lastEvent' = Ev("pause", FALSE)
    /\ UNCHANGED <<tracks, minGapSec, maxGapSec, currentIsSilence, pendingRevoke,
                   currentMusicUrl, lastPlayedUrl, silenceRemainingMs, silenceDurMs, silenceElapsedMs, rafRef,
                   currentTime, duration, audioSrc, nextFile, nextSilence, wavArg, wavBlob,
                   revokeLog, mounted>>
    /\ Render

MediaNextTrack ==
    /\ Ready
    /\ MediaSessionActive
    /\ IF currentIsSilence
       THEN /\ PlayRandomTrack(msSnap.tracks, TRUE, "paused", "nexttrack")
            /\ UNCHANGED <<silenceRemainingMs, silenceDurMs, silenceElapsedMs,
                           rafRef, nextSilence, wavArg, wavBlob>>
       ELSE /\ PlaySilenceThenNext(msSnap.minGapSec, msSnap.maxGapSec,
                                   msSnap.running, "nexttrack")
            /\ UNCHANGED lastPlayedUrl
    /\ UNCHANGED <<tracks, running, minGapSec, maxGapSec, currentTime, duration, nextFile, mounted>>
    /\ Render

MediaPreviousTrack ==
    /\ Ready
    /\ MediaSessionActive
    /\ PlaySilenceThenNext(msSnap.minGapSec, msSnap.maxGapSec, msSnap.running,
                           "previoustrack")
    /\ UNCHANGED <<tracks, running, minGapSec, maxGapSec, lastPlayedUrl,
                   currentTime, duration, nextFile, mounted>>
    /\ Render

\* ---- unmount cleanup effect ---------------------------------------------
\* the updater handed to setTracks runs only if React still evaluates
\* updates of the fiber being removed
Unmount ==
    /\ Ready
    /\ mounted' = FALSE
    /\ pendingRevoke' = Null
    /\ currentMusicUrl' = Null
    /\ \E updaterRuns \in BOOLEAN :
         LET log1 == IF pendingRevoke # Null THEN Revoke(revokeLog, pendingRevoke)
                     ELSE revokeLog
             log2 == IF currentMusicUrl # Null THEN Revoke(log1, currentMusicUrl)
                     ELSE log1
         IN /\ revokeLog' = IF updaterRuns THEN RevokeTracks(log2, tracks) ELSE log2
            /\ tracks' = IF updaterRuns THEN <<>> ELSE tracks
    /\ lastEvent' = Ev("unmount", FALSE)
    /\ UNCHANGED <<running, minGapSec, maxGapSec, currentIsSilence, lastPlayedUrl,
                   silenceRemainingMs, silenceDurMs,
                   silenceElapsedMs, rafRef, currentTime, duration, audioSrc,
                   audioState, pending, aborted, nextFile, nextSilence, wavArg, wavBlob>>
    /\ Render

\* ---- specifications ----------------------------------------------------
\* the pool, the sequencer, the audio element and the media-session
\* handlers, with the gap configuration left at its defaults
Next ==
    \/ OnFiles
    \/ ClearFiles
    \/ OnStart
    \/ OnStop
    \/ SkipTrack
    \/ OnEnded
    \/ OnTimeUpdate
    \/ Tick
    \/ PlayResolve
    \/ PlayRejectPlatform
    \/ PlayRejectAborted
    \/ MediaPlay
    \/ MediaPause
    \/ MediaNextTrack
    \/ MediaPreviousTrack

Spec == Init /\ [][Next]_vars

\* the handlers that configure, draw or start a gap
NextGap ==
    \/ OnFiles
    \/ SetMinGapSec
    \/ SetMaxGapSec
    \/ OnStart
    \/ OnStop
    \/ SkipTrack
    \/ OnEnded
    \/ PlayResolve
    \/ PlayRejectAborted
    \/ MediaNextTrack
    \/ MediaPreviousTrack

SpecGap == Init /\ [][NextGap]_vars

\* makeSilenceWavUrl applied to a duration drawn from WavInputs
InitWav ==
    /\ InitSequencer
    /\ wavArg \in WavInputs
    /\ wavBlob = NoBlob

MakeSilenceWavUrl ==
    /\ wavBlob = NoBlob
    /\ wavBlob' = makeSilenceWavUrl(wavArg)
    /\ nextSilence' = nextSilence + 1
    /\ lastEvent' = Ev("other", FALSE)
    /\ UNCHANGED <<tracks, running, minGapSec, maxGapSec, currentIsSilence,
                   pendingRevoke, currentMusicUrl, lastPlayedUrl,
                   silenceRemainingMs, silenceDurMs, silenceElapsedMs, rafRef,
                   currentTime, duration, audioSrc, audioState, pending, aborted,
                   nextFile, revokeLog, mounted, wavArg>>
    /\ Render

SpecWav == InitWav /\ [][MakeSilenceWavUrl]_vars

\* the running loop: nobody stops, clears or skips, the platform accepts every
\* playback start and fires 'ended' for every source it started
NextLive ==
    \/ OnFiles
    \/ SetMinGapSec
    \/ SetMaxGapSec
    \/ OnStart
    \/ PlayResolve
    \/ OnEnded
    \/ OnTimeUpdate
    \/ Tick

SpecLive ==
    /\ Init
    /\ [][NextLive]_vars
    /\ WF_vars(PlayResolve)
    /\ WF_vars(OnEnded)

\* the component's life up to its unmount
NextTeardown == Next \/ Unmount

SpecTeardown == Init /\ [][NextTeardown]_vars

\* ---- claims -------------------------------------------------------------
UiSelectOps == {"start", "skip", "ended"}

TrackUrls(trk) == {trk[i].url : i \in 1 .. Len(trk)}

SilenceMinted == {SilenceUrl(k) : k \in 1 .. nextSilence - 1}
UnreleasedSilence == {u \in SilenceMinted : ~BagIn(u, revokeLog)}

\* the gap durations the configured pair allows, in milliseconds
InConfiguredRange(ms) ==
    /\ MinOf(minGapSec, maxGapSec) * MsPerSec <= ms
    /\ ms <= MaxOf(minGapSec, maxGapSec) * MsPerSec
    /\ 0 <= ms
    /\ ms <= GapLimitSec * MsPerSec

\* C1: with a pool of at least 2 tracks, a track selected by start, skip or
\* natural completion is never the track selected just before it.
C1_NoImmediateRepeat ==
    (/\ lastEvent.sel
     /\ lastEvent.op \in UiSelectOps
     /\ Len(tracks) >= 2
     /\ lastEvent.prev # Null)
    => lastPlayedUrl # lastEvent.prev

C1_Witness ==
    /\ lastEvent.sel
    /\ lastEvent.op = "ended"
    /\ Len(tracks) >= 2
    /\ lastEvent.prev # Null
    /\ lastEvent.prev \in TrackUrls(tracks)

\* C2: right after stop(), from any phase and also while a play() promise
\* was still pending, the sequencer is Idle, the audio is paused, the three
\* counters are zero and no tick is scheduled.
C2_StopResets ==
    lastEvent.op = "stop"
    => /\ ~running
       /\ audioState = "paused"
       /\ silenceRemainingMs = 0
       /\ currentTime = 0
       /\ duration = 0
       /\ ~rafRef.on

C2_Witness ==
    /\ lastEvent.op = "stop"
    /\ lastEvent.from = "PlayingGap"
    /\ aborted > 0
    /\ silenceDurMs > 0

\* C3: right after stop() no silence URL is pending release: pendingRevokeRef
\* is empty and every silence URL minted has been revoked.
C3_StopReleasesSilence ==
    lastEvent.op = "stop"
    => /\ pendingRevoke = Null
       /\ UnreleasedSilence = {}

\* what skip() does, by the phase it is called in
SkipFromTrackOk ==
    /\ Phase' = "PlayingGap"
    /\ nextSilence' = nextSilence + 1
    /\ audioSrc' = SilenceUrl(nextSilence)
    /\ audioState' = "starting"
    /\ InConfiguredRange(silenceDurMs')

SkipFromGapOk ==
    /\ Phase' = "PlayingTrack"
    /\ lastEvent'.sel
    /\ nextSilence' = nextSilence
    /\ audioSrc' \in TrackUrls(tracks)
    /\ audioState' = "starting"

SkipInIdleOk ==
    UNCHANGED <<tracks, running, minGapSec, maxGapSec, currentIsSilence,
                pendingRevoke, currentMusicUrl, lastPlayedUrl, silenceRemainingMs,
                silenceDurMs, silenceElapsedMs, rafRef, currentTime, duration,
                audioSrc, audioState, pending, aborted, nextFile, nextSilence,
                revokeLog, msSnap, mounted>>

SkipFromGapEmptyPoolOk ==
    /\ Phase' = "PlayingGap"
    /\ audioState' = "paused"
    /\ ~lastEvent'.sel
    /\ UNCHANGED <<audioSrc, nextSilence, lastPlayedUrl, currentMusicUrl>>

EndedFromTrackOk ==
    /\ Phase' = "PlayingGap"
    /\ ~lastEvent'.sel
    /\ nextSilence' = nextSilence + 1
    /\ audioSrc' = SilenceUrl(nextSilence)
    /\ audioState' = "starting"

EndedFromGapOk ==
    /\ Phase' = "PlayingTrack"
    /\ lastEvent'.sel
    /\ nextSilence' = nextSilence
    /\ audioSrc' \in TrackUrls(tracks)
    /\ audioState' = "starting"

EndedInIdleOk ==
    /\ Phase' = "Idle"
    /\ audioState' = "ended"
    /\ UNCHANGED <<currentIsSilence, currentMusicUrl, lastPlayedUrl, audioSrc,
                   pending, nextSilence, silenceDurMs, rafRef>>

EndedFromGapEmptyPoolOk ==
    /\ Phase' = "PlayingGap"
    /\ ~lastEvent'.sel
    /\ audioState' = "ended"
    /\ UNCHANGED <<audioSrc, pending, nextSilence, lastPlayedUrl>>

StartOk ==
    /\ Phase' = "PlayingTrack"
    /\ lastEvent'.sel
    /\ nextSilence' = nextSilence
    /\ audioSrc' \in TrackUrls(tracks)
    /\ audioState' = "starting"

StartNoOp ==
    /\ Phase' = Phase
    /\ UNCHANGED <<tracks, running, currentIsSilence, currentMusicUrl,
                   lastPlayedUrl, audioSrc, audioState, pending, nextSilence,
                   pendingRevoke, revokeLog>>

\* C6: start() in Idle with a non-empty pool enters PlayingTrack at once, with
\* a track of the pool and no gap; start() with an empty pool or while running
\* changes neither the phase nor the current source.
C6_StartTransitions ==
    [][lastEvent'.op = "start"
       => IF ~running /\ Len(tracks) > 0 THEN StartOk ELSE StartNoOp]_vars

C6_Witness ==
    /\ lastEvent.op = "start"
    /\ lastEvent.from = "Idle"
    /\ lastEvent.sel
    /\ Phase = "PlayingTrack"
    /\ nextSilence = 1

\* C7: the display names of the pool are pairwise distinct.
C7_DistinctNames ==
    \A i, j \in 1 .. Len(tracks) : i # j => tracks[i].name # tracks[j].name

\* C8: every gap duration drawn lies between the smaller and the larger of
\* the configured minGapSec and maxGapSec, and in [0, 3600] seconds.
C8_GapInConfiguredRange ==
    [][nextSilence' # nextSilence => InConfiguredRange(silenceDurMs')]_vars

\* C9: when a play() promise rejects, the sequencer is Idle afterwards and the
\* rejection starts nothing: no new play(), no new source, no phase change
\* other than to Idle.
C9_RejectGoesIdle ==
    [][lastEvent'.op = "playReject"
       => /\ ~running'
          /\ pending' \subseteq pending
          /\ UNCHANGED <<audioSrc, currentIsSilence, lastPlayedUrl,
                         currentMusicUrl, nextSilence, rafRef>>]_vars

C9_Witness ==
    /\ lastEvent.op = "playReject"
    /\ lastEvent.from = "PlayingGap"
    /\ audioSrc.kind = "silence"
    /\ audioState = "paused"
    /\ aborted = 0
    /\ ~running

\* C10: at most one silence URL is minted and not yet revoked, and while a
\* playback start is pending every silence URL other than the new source has
\* been revoked.
C10_AtMostOneSilence ==
    /\ Cardinality(UnreleasedSilence) <= 1
    /\ audioState = "starting" => UnreleasedSilence \subseteq {audioSrc}

\* a silence URL that some code path can still hand to URL.revokeObjectURL:
\* it is in pendingRevokeRef, or a playSrc awaiting its play() will store it
SilenceHeld(u) ==
    \/ pendingRevoke = u
    \/ \E p \in pending : p.kind = "src" /\ p.revokeOnEnd /\ p.url = u

\* the gap that u was minted for is over
GapOver(u) == audioSrc # u \/ Phase # "PlayingGap"

\* C11: every silence URL minted for a gap is released once that gap ends,
\* however it ends; so a silence URL whose gap is over is revoked or is still
\* held by something that will revoke it, never lost.
C11_SilenceReleasedAfterGap ==
    \A u \in UnreleasedSilence : GapOver(u) => SilenceHeld(u)

\* the file object URLs minted by onFiles so far
FileMinted == {FileUrl(k) : k \in 1 .. nextFile - 1}

\* C12: every track URL is released exactly once over its lifetime:
\* URL.revokeObjectURL is never called twice on the same track URL, and once
\* the component is unmounted it has been called once on every URL minted.
C12_TrackUrlReleasedOnce ==
    /\ \A u \in FileMinted : CopiesIn(u, revokeLog) <= 1
    /\ ~mounted => \A u \in FileMinted : CopiesIn(u, revokeLog) = 1

\* C13: clear() releases every URL of the pool, empties the pool and leaves
\* the sequencer as stop() does: Idle, audio paused, no tick scheduled, and
\* the remaining-gap-time, current-time and duration counters zero.
C13_ClearStops ==
    [][lastEvent'.op = "clear"
       => /\ \A u \in TrackUrls(tracks) : BagIn(u, revokeLog')
          /\ tracks' = <<>>
          /\ ~running'
          /\ audioState' = "paused"
          /\ ~rafRef'.on
          /\ silenceRemainingMs' = 0
          /\ currentTime' = 0
          /\ duration' = 0]_vars

\* the kind of playback start made by a step
StartedKind ==
    IF nextSilence' # nextSilence /\ audioSrc' = SilenceUrl(nextSilence)
       /\ audioState' = "starting"
    THEN "gap"
    ELSE IF lastEvent'.sel /\ audioSrc'.kind = "file" /\ audioState' = "starting"
    THEN "track"
    ELSE "none"

\* what skipTrack does in the current state: the phase it leads to and the
\* kind of playback start it makes
SkipNextPhase ==
    IF ~running THEN "Idle"
    ELSE IF ~currentIsSilence THEN "PlayingGap"
    ELSE IF Len(tracks) > 0 THEN "PlayingTrack" ELSE "PlayingGap"

SkipStartKind ==
    IF ~running THEN "none"
    ELSE IF ~currentIsSilence THEN "gap"
    ELSE IF Len(tracks) > 0 THEN "track" ELSE "none"

MediaSkipOps == {"nexttrack", "previoustrack"}

\* C14: the media controls nexttrack and previoustrack are equivalent to
\* skip(): from every state either of them leads to the phase skip() would
\* lead to and makes the kind of playback start skip() would make.
C14_MediaSkipEquivalent ==
    [][lastEvent'.op \in MediaSkipOps
       => /\ Phase' = SkipNextPhase
          /\ StartedKind = SkipStartKind]_vars

\* skip() itself does what SkipNextPhase and SkipStartKind say
SkipMatchesItself ==
    [][lastEvent'.op = "skip"
       => /\ Phase' = SkipNextPhase
          /\ StartedKind = SkipStartKind]_vars

\* the sequencer state stop() is about: phase, counters, scheduled tick,
\* pending silence URL, last-played reference, pool
StopView ==
    [running |-> running, currentIsSilence |-> currentIsSilence,
     audioState |-> audioState, rafRef |-> rafRef,
     silenceRemainingMs |-> silenceRemainingMs,
     currentTime |-> currentTime, duration |-> duration,
     pendingRevoke |-> pendingRevoke, lastPlayedUrl |-> lastPlayedUrl,
     tracks |-> tracks]

\* onStop as a function of that state
StopApplied(v) ==
    [v EXCEPT !.running = FALSE, !.audioState = "paused", !.rafRef = RafOff,
              !.silenceRemainingMs = 0, !.currentTime = 0, !.duration = 0]

\* C15: stop() is idempotent: every stop() step maps the sequencer state v
\* to StopApplied(v), and in every reachable state applying it twice gives
\* the same state as applying it once.
C15_StopIdempotent ==
    /\ [](StopApplied(StopApplied(StopView)) = StopApplied(StopView))
    /\ [][lastEvent'.op = "stop" => StopView' = StopApplied(StopView)]_vars

C15_Witness ==
    /\ lastEvent.op = "stop"
    /\ lastEvent.from = "Idle"
    /\ pendingRevoke # Null
    /\ lastPlayedUrl # Null
    /\ StopView = StopApplied(StopView)

\* C16: with a pool of exactly one track, every selection made by
\* playRandomTrack is that track, whatever was played last.
C16_SingleTrackSelected ==
    (lastEvent.sel /\ Len(tracks) = 1) => lastPlayedUrl = tracks[1].url

\* C17: for every duration d (here in ms) makeSilenceWavUrl builds a
\* container of 44 + 2*floor(c*44100) bytes, c being d clamped to [0, 3600] s,
\* with RIFF size field 36 + dataSize, data size field dataSize = 2*frameCount
\* and all sample bytes zero; d < 0 gives 44 bytes, d > 3600 s the 3600-second
\* length, and d = 5 s gives 441044 bytes.
C17_WavSize ==
    wavBlob # NoBlob =>
      LET c == IF wavArg < 0 THEN 0
               ELSE IF wavArg > 3600000 THEN 3600000 ELSE wavArg
          frames == (c * 441) \div 10
      IN /\ wavBlob.size = 44 + 2 * frames
         /\ wavBlob.frameCount = frames
         /\ wavBlob.dataSize = 2 * frames
         /\ wavBlob.riffSize = 36 + wavBlob.dataSize
         /\ wavBlob.sampleBytes \subseteq {0}
         /\ wavArg < 0 => wavBlob.size = 44
         /\ wavArg > 3600000 => wavBlob.size = 44 + 2 * 3600 * 44100
         /\ wavArg = 5000 => wavBlob.size = 441044

C17_Witness ==
    /\ wavBlob # NoBlob
    /\ wavArg = 4000000
    /\ wavBlob.size = 317520044

TrackPlaying == running /\ ~currentIsSilence /\ audioState = "playing"
GapPlaying == running /\ currentIsSilence /\ audioState = "playing"

\* C18: in the running loop, with a non-empty pool, after every track a gap
\* is played and after every gap a track is played again (as long as silence
\* URLs are left to mint), also for a 0-second gap; with a pool of two tracks
\* the track after the gap is the other one.
C18_LoopLive ==
    /\ (TrackPlaying /\ nextSilence <= MaxSilence) ~> GapPlaying
    /\ GapPlaying ~> TrackPlaying
    /\ [][(GapPlaying /\ lastEvent'.op = "ended" /\ Len(tracks) = 2)
          => /\ lastEvent'.sel
             /\ lastPlayedUrl' \in TrackUrls(tracks) \ {lastPlayedUrl}]_vars

C18_Witness ==
    /\ TrackPlaying
    /\ Len(tracks) = 2
    /\ nextSilence = MaxSilence + 1
    /\ silenceDurMs = 0
    /\ minGapSec = 0
    /\ maxGapSec = 0

\* C19: the late rejection of a playback start that a later transition
\* superseded never changes the phase that transition set; after a skip the
\* sequencer is still running.
C19_LateRejectionKeepsPhase ==
    [][aborted' < aborted => Phase' = Phase]_vars

\* a step of the tick callback that updates the remaining-gap-time counter
TickUpdates ==
    /\ rafRef.on
    /\ lastEvent'.op = "other"
    /\ silenceRemainingMs' # silenceRemainingMs

\* C20: once the sequencer is Idle (by stop, clear, a rejected playback start
\* or the media-control pause) the tick does not reschedule itself: a tick
\* that still fires while Idle leaves no tick scheduled.
C20_TickStopsWhenIdle ==
    [][(~running /\ TickUpdates) => ~rafRef'.on]_vars

\* start() would select a track and nothing was played since the last clear
FreshStart == Ready /\ ~running /\ Len(tracks) > 0 /\ lastPlayedUrl = Null

\* C21: the last-played reference is reset by clear() and by nothing else,
\* in particular not by stop(): a start() with a pool of at least 2 tracks
\* never selects the track selected last before it, and when nothing was
\* played since the last clear the start() can select any track of the pool.
C21_LastPlayedResetOnlyByClear ==
    /\ [][lastEvent'.op = "stop" => lastPlayedUrl' = lastPlayedUrl]_vars
    /\ [][lastEvent'.op = "clear" => lastPlayedUrl' = Null]_vars
    /\ [][(lastPlayedUrl # Null /\ lastPlayedUrl' = Null)
          => lastEvent'.op = "clear"]_vars
    /\ [][(lastEvent'.op = "start" /\ lastEvent'.sel /\ Len(tracks) >= 2
           /\ lastPlayedUrl # Null)
          => lastPlayedUrl' # lastPlayedUrl]_vars
    /\ [](FreshStart
          => \A i \in 1 .. Len(tracks) :
               ENABLED (OnStart /\ lastPlayedUrl' = tracks[i].url))

C21_Witness ==
    /\ lastEvent.op = "start"
    /\ lastEvent.from = "Idle"
    /\ lastEvent.sel
    /\ Len(tracks) = 2
    /\ lastEvent.prev \in TrackUrls(tracks)
    /\ lastPlayedUrl \in TrackUrls(tracks) \ {lastEvent.prev}

\* the names of a list of tracks, in order
TrackNames(trk) == [i \in 1 .. Len(trk) |-> trk[i].name]

\* the files of an input list that onFiles accepts, in input order
Accepted(files) == SelectSeq(files, LAMBDA n : ~IsDuplicate(tracks, n))

\* C22: register appends the accepted files at the end of the pool in input
\* order, mints one URL per accepted file and none for a dropped duplicate,
\* leaves the tracks already in the pool as they are and changes neither the
\* phase nor the current source.
C22_RegisterAppends ==
    /\ [](\A files \in FileLists :
            LET nt == NewTracks(tracks, files, nextFile) IN
              /\ TrackNames(nt) = Accepted(files)
              /\ \A i \in 1 .. Len(nt) : nt[i].url = FileUrl(nextFile + i - 1))
    /\ [][lastEvent'.op = "register"
          => /\ \E files \in FileLists :
                  /\ tracks' = tracks \o NewTracks(tracks, files, nextFile)
                  /\ nextFile' = nextFile + Len(Accepted(files))
             /\ SubSeq(tracks', 1, Len(tracks)) = tracks
             /\ Phase' = Phase
             /\ UNCHANGED <<audioSrc, audioState, pending, currentIsSilence,
                            currentMusicUrl, lastPlayedUrl, revokeLog>>]_vars

C22_Witness ==
    /\ lastEvent.op = "register"
    /\ lastEvent.from = "PlayingTrack"
    /\ Len(tracks) = 2
    /\ tracks[1].url = audioSrc
    /\ tracks[2] = [name |-> "b.mp3", url |-> FileUrl(2)]

\* the handlers of the sequencer; "other" is the tick, the acknowledgement
\* of a play() and the timeupdate listener
SequencerOps == {"start", "skip", "stop", "ended", "playReject", "other"}

\* C23: start, skip, stop, natural completion, a rejected playback start and
\* the tick never add, remove, reorder or release a track: each leaves the
\* pool as it is and revokes no track URL.
C23_SequencerReadsPool ==
    [][lastEvent'.op \in SequencerOps
       => /\ tracks' = tracks
          /\ nextFile' = nextFile
          /\ \A u \in FileMinted :
               CopiesIn(u, revokeLog') = CopiesIn(u, revokeLog)]_vars

C23_Witness ==
    /\ lastEvent.op = "ended"
    /\ lastEvent.from = "PlayingGap"
    /\ lastEvent.sel
    /\ Len(tracks) = 2
    /\ BagIn(SilenceUrl(1), revokeLog)
    /\ \A u \in FileMinted : ~BagIn(u, revokeLog)

\* C24: the audio element plays only while the sequencer is running: in
\* every state in which no rejected play() is still to be handled, running =
\* false means that the audio is not playing.
C24_PlayingOnlyWhileRunning ==
    (~running /\ aborted = 0) => audioState # "playing"

\* C25: every track that playRandomTrack hands to playSrc, whatever the
\* trigger, is in the pool at that moment and its URL has not been revoked.
C25_SelectedTrackInPool ==
    [][lastEvent'.sel
       => /\ audioSrc' \in TrackUrls(tracks)
          /\ ~BagIn(audioSrc', revokeLog)]_vars

\* C26: whenever the sequencer is in PlayingTrack the remaining-gap-time
\* counter is zero.
C26_NoCountdownWhileTrack ==
    Phase = "PlayingTrack" => silenceRemainingMs = 0

====
